---- MODULE Spec2Model ----
(***************************************************************************)
(* ECR cleanup (main.py): one pass of discover_delete_images over the      *)
(* repositories of a region, with the running images of the configured     *)
(* clusters, and delete_images on each repository's delete list.           *)
(*                                                                         *)
(* Strings are sequences of one-character strings, so that substring       *)
(* tests, regular-expression searches and concatenations are computed.     *)
(* Time is counted in days.                                                *)
(***************************************************************************)
EXTENDS Integers, Sequences, FiniteSets

\* ------------------------------------------------------------- bounds ---
\* Largest number of image records one describe_images listing returns.
MaxImages == 2
\* IMAGES_TO_KEEP ranges over 0..MaxKeep.
MaxKeep == 1
\* The day of the run (datetime.now()); push dates are relative to it.
Now == 40
\* Largest number of untagged images of the repository of SpecChunks.
MaxDigests == 250

\* ------------------------------------------------------------ strings ---
S_latest == <<"l", "a", "t", "e", "s", "t">>
S_latest_dev == <<"l", "a", "t", "e", "s", "t", "-", "d", "e", "v">>
S_v1 == <<"v", "1">>
S_v2 == <<"v", "2">>
S_v3 == <<"v", "3">>
S_v4 == <<"v", "4">>
S_rc1 == <<"r", "c", "1">>
S_colon == <<":">>

\* Python's `sub in s` for strings: sub occurs as a contiguous substring.
Contains(sub, s) ==
  \E p \in 1..(Len(s) + 1) :
     /\ p + Len(sub) - 1 <= Len(s)
     /\ SubSeq(s, p, p + Len(sub) - 1) = sub

\* A compiled pattern of the shape [^]literal[$]: re.search finds the
\* literal at some position, at the start when anchored by ^ and up to
\* the end when anchored by $.
re_search(pattern, s) ==
  \E p \in 1..(Len(s) + 1) :
     /\ pattern.start => p = 1
     /\ p + Len(pattern.lit) - 1 <= Len(s)
     /\ SubSeq(s, p, p + Len(pattern.lit) - 1) = pattern.lit
     /\ pattern.end => p + Len(pattern.lit) - 1 = Len(s)

\* "^$", the default of IGNORE_TAGS_REGEX and IGNORE_REPO_REGEX.
RE_default == [start |-> TRUE, lit |-> <<>>, end |-> TRUE]
\* "rc"
RE_rc == [start |-> FALSE, lit |-> <<"r", "c">>, end |-> FALSE]
\* "^a"
RE_a == [start |-> TRUE, lit |-> <<"a">>, end |-> FALSE]
\* "^b"
RE_b == [start |-> TRUE, lit |-> <<"b">>, end |-> FALSE]

\* ----------------------------------------------------------- duration ---
Digits == {"0", "1", "2", "3", "4", "5", "6", "7", "8", "9"}

DigitVal(c) ==
  CASE c = "0" -> 0 [] c = "1" -> 1 [] c = "2" -> 2 [] c = "3" -> 3
    [] c = "4" -> 4 [] c = "5" -> 5 [] c = "6" -> 6 [] c = "7" -> 7
    [] c = "8" -> 8 [] c = "9" -> 9

RECURSIVE DigitRun(_, _, _)
\* The value of the run of digits of s that starts at position p.
DigitRun(s, p, acc) ==
  IF p > Len(s) \/ s[p] \notin Digits THEN acc
  ELSE DigitRun(s, p + 1, acc * 10 + DigitVal(s[p]))

HasDigit(s) == \E p \in 1..Len(s) : s[p] \in Digits

\* int(re.search(r'\d+', s).group()): the first run of digits.
FirstNumber(s) ==
  LET first == CHOOSE p \in 1..Len(s) :
                 /\ s[p] \in Digits
                 /\ \A q \in 1..(p - 1) : s[q] \notin Digits
  IN DigitRun(s, first, 0)

\* [ok, days]: ok is FALSE where the code raises (no digit: AttributeError
\* on None.group(); no unit letter: ValueError).
convert_duration_to_timedelta(duration_str) ==
  IF ~HasDigit(duration_str) THEN [ok |-> FALSE, days |-> 0]
  ELSE LET number == FirstNumber(duration_str) IN
       IF Contains(<<"d">>, duration_str) THEN [ok |-> TRUE, days |-> number]
       ELSE IF Contains(<<"w">>, duration_str)
              THEN [ok |-> TRUE, days |-> 7 * number]
       ELSE IF Contains(<<"m">>, duration_str)
              THEN [ok |-> TRUE, days |-> 30 * number]
       ELSE [ok |-> FALSE, days |-> 0]

\* Values of IMAGES_KEEP_DURATION: "1w", "1m" and the malformed "1x".
Durations == {<<"1", "w">>, <<"1", "m">>, <<"1", "x">>}

\* ------------------------------------------------------------- inputs ---
\* CLUSTERS, the kube contexts queried in turn.
CLUSTERS == <<"c1", "c2">>

\* describe_repositories: the repositories of the region.
Repos ==
  << [repositoryUri |-> <<"a">>, registryId |-> "1", repositoryName |-> "a"],
     [repositoryUri |-> <<"b">>, registryId |-> "1", repositoryName |-> "b"] >>

\* repository['repositoryUri'] + ":" + tag
ImageUrl(uri, tag) == uri \o S_colon \o tag

\* list_pod_for_all_namespaces().items of one cluster: a list of pods, each
\* the list of the images of its containers.
PodLists ==
  { <<>>,
    << <<ImageUrl(<<"a">>, S_v1), ImageUrl(<<"a">>, S_latest)>>,
       <<ImageUrl(<<"a">>, S_v1)>> >>,
    << <<ImageUrl(<<"a">>, S_rc1)>>,
       <<ImageUrl(<<"b">>, S_v1), ImageUrl(<<"b">>, S_latest_dev)>> >> }

\* imagePushedAt of an image: exactly one week before the run, or ten days.
Times == {Now - 7, Now - 10}

\* The tags of the image with digest d; the image with digest 1 carries no
\* 'imageTags' key. A tag names one image of a repository.
CatalogueTags ==
  << <<>>,
     <<S_v1, S_v4>>,
     <<S_latest, S_v2>>,
     <<S_latest_dev>>,
     <<S_rc1, S_v3>> >>

\* An element of imageDetails.
ImageDetail(d, t) ==
  IF CatalogueTags[d] = <<>>
    THEN [imageDigest |-> d, imagePushedAt |-> t]
    ELSE [imageDigest |-> d, imageTags |-> CatalogueTags[d], imagePushedAt |-> t]

RECURSIVE DetailsOf(_, _)
\* The listing of the images with the digests of ds, in digest order, pushed
\* at the times of ts.
DetailsOf(ds, ts) ==
  IF ds = {} THEN <<>>
  ELSE LET d == CHOOSE x \in ds : \A y \in ds : x <= y
       IN <<ImageDetail(d, ts[d])>> \o DetailsOf(ds \ {d}, ts)

\* What the describe_images paginator can return for a repository: at most
\* MaxImages images with distinct digests.
Inventories ==
  UNION { { DetailsOf(ds, ts) : ts \in [ds -> Times] } :
          ds \in { x \in SUBSET (1..Len(CatalogueTags)) : Cardinality(x) <= MaxImages } }

\* ------------------------------------------------------ pure functions ---
RECURSIVE AppendNew(_, _)
\* Appends the elements of xs that out does not hold yet, in order.
AppendNew(out, xs) ==
  IF xs = <<>> THEN out
  ELSE AppendNew(IF \E k \in 1..Len(out) : out[k] = Head(xs)
                   THEN out ELSE Append(out, Head(xs)),
                 Tail(xs))

RECURSIVE Flatten(_)
Flatten(ss) == IF ss = <<>> THEN <<>> ELSE Head(ss) \o Flatten(Tail(ss))

\* running_images: every container image of every pod, once.
get_eks_pods_images(pods) == AppendNew(<<>>, Flatten(pods))

Range(s) == { s[k] : k \in 1..Len(s) }

\* 'imageTags' in image
IsTagged(image) == "imageTags" \in DOMAIN image

append_to_list(image_digest_list, repo_id) ==
  IF [imageDigest |-> repo_id] \in Range(image_digest_list)
    THEN image_digest_list
    ELSE Append(image_digest_list, [imageDigest |-> repo_id])

append_to_tag_list(tag_list, tag_id) ==
  IF tag_id \in Range(tag_list) THEN tag_list ELSE Append(tag_list, tag_id)

\* The images of the listing that carry tags, in listing order.
TaggedOf(details) == SelectSeq(details, IsTagged)

\* A loop of append_to_list calls over ids, from left to right, as one
\* expression (listings are long): the ids that the list does not hold are
\* appended, each where it occurs first.
AppendAllToList(image_digest_list, ids) ==
  LET numbered == [k \in 1..Len(ids) |-> [k |-> k, id |-> ids[k]]]
      fresh == SelectSeq(numbered,
                 LAMBDA e : /\ [imageDigest |-> e.id] \notin Range(image_digest_list)
                            /\ \A j \in 1..(e.k - 1) : ids[j] # e.id)
  IN image_digest_list \o [m \in 1..Len(fresh) |-> [imageDigest |-> fresh[m].id]]

\* UntaggedInto taking the untagged images only of a listing without tagged
\* images.
UntaggedInto_NoTaggedOnly(sha, details) ==
  LET untagged == SelectSeq(details, LAMBDA image : ~IsTagged(image))
  IN IF Len(untagged) < Len(details) THEN sha
     ELSE AppendAllToList(sha, [k \in 1..Len(untagged) |-> untagged[k].imageDigest])

\* The listing loop's else branch: the digest of every image without tags
\* goes to deletesha.
UntaggedInto(sha, details) ==
  LET untagged == SelectSeq(details, LAMBDA image : ~IsTagged(image))
  IN AppendAllToList(sha, [k \in 1..Len(untagged) |-> untagged[k].imageDigest])

\* Inserts image behind the images pushed at the same time or later.
InsertByPushedAt(sorted, image) ==
  LET n == Cardinality({ k \in 1..Len(sorted) :
                           sorted[k].imagePushedAt >= image.imagePushedAt })
  IN SubSeq(sorted, 1, n) \o <<image>> \o SubSeq(sorted, n + 1, Len(sorted))

RECURSIVE SortByPushedAtDesc(_, _)
\* tagged_images.sort(key=imagePushedAt, reverse=True): stable.
SortByPushedAtDesc(sorted, images) ==
  IF images = <<>> THEN sorted
  ELSE SortByPushedAtDesc(InsertByPushedAt(sorted, Head(images)), Tail(images))

\* RunningTags looking only at the tags that do not contain "latest".
RunningTags_UnprotectedOnly(uri, image, running_containers_set) ==
  SelectSeq(image.imageTags,
            LAMBDA tag : /\ ~Contains(S_latest, tag)
                         /\ ImageUrl(uri, tag) \in running_containers_set)

\* The tags of image whose url is in running_containers_set.
RunningTags(uri, image, running_containers_set) ==
  SelectSeq(image.imageTags,
            LAMBDA tag : ImageUrl(uri, tag) \in running_containers_set)

RECURSIVE RunningSha(_, _, _)
\* running_sha: the digest of an image once for each of its running tags.
RunningSha(uri, images, running_containers_set) ==
  IF images = <<>> THEN <<>>
  ELSE [k \in 1..Len(RunningTags(uri, Head(images), running_containers_set))
          |-> Head(images).imageDigest]
       \o RunningSha(uri, Tail(images), running_containers_set)

\* IsCandidate with the two thresholds joined by "and".
IsCandidate_And(pushedAt, index, limit, keep) == pushedAt < limit /\ index >= keep

\* image['imagePushedAt'] < time_limit or index >= IMAGES_TO_KEEP
IsCandidate(pushedAt, index, limit, keep) == pushedAt < limit \/ index >= keep

\* TagSurvives comparing the tag with "latest" instead of searching it.
TagSurvives_Exact(tag, ignore_tags_regex) ==
  tag # S_latest /\ ~re_search(ignore_tags_regex, tag)

\* "latest" not in tag and ignore_tags_regex.search(tag) is None
TagSurvives(tag, ignore_tags_regex) ==
  ~Contains(S_latest, tag) /\ ~re_search(ignore_tags_regex, tag)

\* not running_sha_set or image['imageDigest'] not in running_sha_set
NotRunning(digest, running_sha_set) ==
  running_sha_set = {} \/ digest \notin running_sha_set

RECURSIVE ClassifyTags(_, _, _, _, _, _)
\* The loop over the tags of one candidate image; plan is [sha, tag].
ClassifyTags(uri, image, tags, plan, ignore_tags_regex, running_sha_set) ==
  IF tags = <<>> THEN plan
  ELSE LET tag == Head(tags)
           next ==
             IF /\ TagSurvives(tag, ignore_tags_regex)
                /\ NotRunning(image.imageDigest, running_sha_set)
               THEN [sha |-> append_to_list(plan.sha, image.imageDigest),
                     tag |-> append_to_tag_list(plan.tag,
                               [imageUrl |-> ImageUrl(uri, tag),
                                pushedAt |-> image.imagePushedAt])]
               ELSE plan
       IN ClassifyTags(uri, image, Tail(tags), next, ignore_tags_regex,
                       running_sha_set)

RECURSIVE ClassifyImages(_, _, _, _, _, _, _, _)
\* for index, image in enumerate(tagged_images), from 0-based index on;
\* limit is the global time_limit, <<day>>.
ClassifyImages(uri, images, index, plan, limit, keep, ignore_tags_regex, running_sha_set) ==
  IF index >= Len(images) THEN plan
  ELSE LET image == images[index + 1]
           next ==
             IF IsCandidate(image.imagePushedAt, index, limit[1], keep)
               THEN ClassifyTags(uri, image, image.imageTags, plan,
                                 ignore_tags_regex, running_sha_set)
               ELSE plan
       IN ClassifyImages(uri, images, index + 1, next, limit, keep,
                         ignore_tags_regex, running_sha_set)

\* The number of images a batch_delete_image call takes.
ChunkSize == 100

\* list[i:j] with 0-based i and exclusive j, clipped to the list.
Slice(list, from, to) ==
  SubSeq(list, from + 1, IF to > Len(list) THEN Len(list) ELSE to)

\* chunks yielding the full chunks only.
chunks_FullOnly(repo_list, chunk_size) ==
  [k \in 1..(Len(repo_list) \div chunk_size) |->
     Slice(repo_list, (k - 1) * chunk_size, (k - 1) * chunk_size + chunk_size)]

\* chunks(repo_list, chunk_size) as the list of the chunks it yields.
chunks(repo_list, chunk_size) ==
  [k \in 1..((Len(repo_list) + chunk_size - 1) \div chunk_size) |->
     Slice(repo_list, (k - 1) * chunk_size, (k - 1) * chunk_size + chunk_size)]

\* -------------------------------------------------------------- state ---
VARIABLES
  DRYRUN,                \* global: no batch_delete_image call when TRUE
  IMAGES_TO_KEEP,        \* global
  IMAGES_KEEP_DURATION,  \* global: the duration string
  IGNORE_TAGS_REGEX,     \* global: a pattern
  IGNORE_REPO_REGEX,     \* global: a pattern
  time_limit,            \* global: <<>> while unassigned, else <<day>>
  pc,                    \* "start", "clusters", "repos", "delete", "turn_end",
                         \* "done", "aborted"
  failure,               \* the call whose exception ended the pass, or "none"
  repositories,          \* discover_delete_images: the repositories listed
  cluster_idx,           \* position of the loop over clusters (1-based)
  running_containers,    \* the images collected from the clusters so far
  repo_idx,              \* number of repositories the loop has taken up
  inventory,             \* imageDetails listed for the repository taken up last
  tagged_images,         \* per repository: its tagged images, sorted
  running_sha,           \* per repository
  deletesha,             \* per repository: list of [imageDigest |-> d]
  deletetag,             \* per repository: list of [imageUrl, pushedAt]
  chunk_no,              \* delete_images: i
  issued,                \* the batches of this repository issued or printed so far
  report,                \* the descriptor report printed for this repository
  listed,                \* indexes of the repositories describe_images was called for
  planned,               \* indexes of the repositories classified
  to_delete,             \* indexes of the repositories handed to delete_images
  completed,             \* indexes of the repositories delete_images returned for
  delete_called          \* indexes of the repositories batch_delete_image was called for

config == <<DRYRUN, IMAGES_TO_KEEP, IMAGES_KEEP_DURATION, IGNORE_TAGS_REGEX,
            IGNORE_REPO_REGEX>>

locals == <<inventory, tagged_images, running_sha, deletesha, deletetag>>

history == <<listed, planned, to_delete, completed, delete_called>>

vars == <<config, time_limit, pc, failure, repositories, cluster_idx,
          running_containers, repo_idx, locals, chunk_no, issued, report,
          history>>

\* initialize(): the globals read from the environment.
InitConfig ==
  /\ DRYRUN \in BOOLEAN
  /\ IMAGES_TO_KEEP \in 0..MaxKeep
  /\ IMAGES_KEEP_DURATION \in Durations
  /\ IGNORE_TAGS_REGEX \in {RE_default, RE_rc}
  /\ IGNORE_REPO_REGEX \in {RE_default, RE_a, RE_b}

\* handler() after initialize(), about to call discover_delete_images once.
Init ==
  /\ InitConfig
  /\ time_limit = <<>>
  /\ pc = "start"
  /\ failure = "none"
  /\ repositories = <<>>
  /\ cluster_idx = 1
  /\ running_containers = <<>>
  /\ repo_idx = 0
  /\ inventory = <<>>
  /\ tagged_images = <<>>
  /\ running_sha = <<>>
  /\ deletesha = <<>>
  /\ deletetag = <<>>
  /\ chunk_no = 0
  /\ issued = <<>>
  /\ report = <<>>
  /\ listed = {}
  /\ planned = {}
  /\ to_delete = {}
  /\ completed = {}
  /\ delete_called = {}

\* An exception nobody catches ends the pass.
Raise(what) ==
  /\ pc' = "aborted"
  /\ failure' = what

\* The paginator loop over describe_repositories.
DescribeRepositories ==
  /\ pc = "start"
  /\ repositories' = Repos
  /\ pc' = "clusters"
  /\ UNCHANGED <<config, time_limit, failure, cluster_idx, running_containers,
                 repo_idx, locals, chunk_no, issued, report, history>>

DescribeRepositoriesFails ==
  /\ pc = "start"
  /\ Raise("repositories")
  /\ UNCHANGED <<config, time_limit, repositories, cluster_idx,
                 running_containers, repo_idx, locals, chunk_no, issued, report,
                 history>>

\* ClustersLeft leaving the loop before the last cluster.
ClustersLeft_SkipLast(idx) == idx < Len(CLUSTERS)

\* for cluster in clusters: the loop is over when every cluster was queried.
ClustersLeft(idx) == idx <= Len(CLUSTERS)

\* The position of the pass once the repository loop has taken up idx
\* repositories and is at the top of the loop again.
LoopTop(idx) == IF idx >= Len(repositories) THEN "done" ELSE "repos"

\* running_containers.extend(get_eks_pods_images(cluster))
GetEksPodsImages ==
  /\ pc = "clusters"
  /\ ClustersLeft(cluster_idx)
  /\ \E pods \in PodLists :
       running_containers' = running_containers \o get_eks_pods_images(pods)
  /\ cluster_idx' = cluster_idx + 1
  /\ pc' = IF ClustersLeft(cluster_idx + 1) THEN "clusters" ELSE LoopTop(0)
  /\ UNCHANGED <<config, time_limit, failure, repositories, repo_idx, locals,
                 chunk_no, issued, report, history>>

\* load_kube_config or list_pod_for_all_namespaces raises.
GetEksPodsImagesFails ==
  /\ pc = "clusters"
  /\ ClustersLeft(cluster_idx)
  /\ Raise("cluster")
  /\ UNCHANGED <<config, time_limit, repositories, cluster_idx,
                 running_containers, repo_idx, locals, chunk_no, issued, report,
                 history>>

\* RepoIgnored searching with the pattern for tags.
RepoIgnored_TagsRegex(uri) == re_search(IGNORE_TAGS_REGEX, uri)

\* re.search(ignore_repo_regex, repository['repositoryUri'])
RepoIgnored(uri) == re_search(IGNORE_REPO_REGEX, uri)

\* The repository the loop takes up next.
NextRepository == repositories[repo_idx + 1]

\* "Skipping repository": continue.
SkipRepository ==
  /\ pc = "repos"
  /\ RepoIgnored(NextRepository.repositoryUri)
  /\ repo_idx' = repo_idx + 1
  /\ pc' = LoopTop(repo_idx + 1)
  /\ UNCHANGED <<config, time_limit, failure, repositories, cluster_idx,
                 running_containers, locals, chunk_no, issued, report, history>>

\* The describe_images paginator raises.
DescribeImagesFails ==
  /\ pc = "repos"
  /\ ~RepoIgnored(NextRepository.repositoryUri)
  /\ repo_idx' = repo_idx + 1
  /\ listed' = listed \cup {repo_idx + 1}
  /\ deletesha' = <<>>
  /\ deletetag' = <<>>
  /\ tagged_images' = <<>>
  /\ issued' = <<>>
  /\ report' = <<>>
  /\ Raise("list")
  /\ UNCHANGED <<config, time_limit, repositories, cluster_idx,
                 running_containers, inventory, running_sha, chunk_no, planned,
                 to_delete, completed, delete_called>>

\* The body of the repository loop from the listing to the end of the
\* classification, for the listing details: the new values of the locals and
\* of time_limit.
Classified(uri, details, running, limit, days, keep, ignore_tags_regex) ==
  LET sorted == SortByPushedAtDesc(<<>>, TaggedOf(details))
      new_limit == IF sorted = <<>> THEN limit ELSE <<Now - days>>
      sha == RunningSha(uri, sorted, Range(running))
      plan == ClassifyImages(uri, sorted, 0,
                             [sha |-> UntaggedInto(<<>>, details), tag |-> <<>>],
                             new_limit, keep, ignore_tags_regex, Range(sha))
  IN [tagged_images |-> sorted, time_limit |-> new_limit, running_sha |-> sha,
      deletesha |-> plan.sha, deletetag |-> plan.tag]

\* One turn of the repository loop up to the call of delete_images, or to
\* "Nothing to delete in repository".
ProcessRepository ==
  /\ pc = "repos"
  /\ ~RepoIgnored(NextRepository.repositoryUri)
  /\ repo_idx' = repo_idx + 1
  /\ listed' = listed \cup {repo_idx + 1}
  /\ issued' = <<>>
  /\ report' = <<>>
  /\ chunk_no' = 0
  /\ \E details \in Inventories,
          keep_duration \in {convert_duration_to_timedelta(IMAGES_KEEP_DURATION)} :
       \E c \in { Classified(NextRepository.repositoryUri, details,
                              running_containers, time_limit, keep_duration.days,
                              IMAGES_TO_KEEP, IGNORE_TAGS_REGEX) } :
          /\ inventory' = details
          /\ tagged_images' = c.tagged_images
          /\ IF ~keep_duration.ok
               THEN /\ deletesha' = UntaggedInto(<<>>, details)
                    /\ deletetag' = <<>>
                    /\ running_sha' = <<>>
                    /\ Raise("config")
                    /\ UNCHANGED <<time_limit, planned, to_delete>>
               ELSE /\ deletesha' = c.deletesha
                    /\ deletetag' = c.deletetag
                    /\ running_sha' = c.running_sha
                    /\ time_limit' = c.time_limit
                    /\ planned' = planned \cup {repo_idx + 1}
                    /\ failure' = failure
                    /\ IF c.deletesha # <<>>
                         THEN /\ pc' = "delete"
                              /\ to_delete' = to_delete \cup {repo_idx + 1}
                         ELSE /\ pc' = "turn_end"
                              /\ to_delete' = to_delete
  /\ UNCHANGED <<config, repositories, cluster_idx, running_containers,
                 completed, delete_called>>

\* The chunk the loop of delete_images takes up next.
NextChunk == chunks(deletesha, ChunkSize)[chunk_no + 1]

ChunksLeft == chunk_no < Len(chunks(deletesha, ChunkSize))

\* One turn of the loop over the chunks: the call, or the printed batch.
BatchDelete ==
  /\ pc = "delete"
  /\ ChunksLeft
  /\ chunk_no' = chunk_no + 1
  /\ issued' = Append(issued, [i |-> chunk_no + 1, imageIds |-> NextChunk,
                               real |-> ~DRYRUN])
  /\ delete_called' = IF DRYRUN THEN delete_called
                      ELSE delete_called \cup {repo_idx}
  /\ UNCHANGED <<config, time_limit, pc, failure, repositories, cluster_idx,
                 running_containers, repo_idx, locals, report, listed, planned,
                 to_delete, completed>>

\* batch_delete_image raises.
BatchDeleteFails ==
  /\ pc = "delete"
  /\ ChunksLeft
  /\ ~DRYRUN
  /\ chunk_no' = chunk_no + 1
  /\ issued' = Append(issued, [i |-> chunk_no + 1, imageIds |-> NextChunk,
                               real |-> TRUE])
  /\ delete_called' = delete_called \cup {repo_idx}
  /\ Raise("delete")
  /\ UNCHANGED <<config, time_limit, repositories, cluster_idx,
                 running_containers, repo_idx, locals, report, listed, planned,
                 to_delete, completed>>

\* "Image URLs that are marked for deletion", and delete_images returns.
PrintReport ==
  /\ pc = "delete"
  /\ ~ChunksLeft
  /\ report' = deletetag
  /\ completed' = completed \cup {repo_idx}
  /\ pc' = "turn_end"
  /\ UNCHANGED <<config, time_limit, failure, repositories, cluster_idx,
                 running_containers, repo_idx, locals, chunk_no, issued, listed,
                 planned, to_delete, delete_called>>

\* The turn of the repository loop ends. Its locals are dead from here on:
\* the next turn assigns deletesha, deletetag, tagged_images and running_sha
\* before it reads them, so they are emptied here, with the record of what
\* the turn listed and printed.
EndTurn ==
  /\ pc = "turn_end"
  /\ inventory' = <<>>
  /\ tagged_images' = <<>>
  /\ running_sha' = <<>>
  /\ deletesha' = <<>>
  /\ deletetag' = <<>>
  /\ chunk_no' = 0
  /\ issued' = <<>>
  /\ report' = <<>>
  /\ pc' = LoopTop(repo_idx)
  /\ UNCHANGED <<config, time_limit, failure, repositories, cluster_idx,
                 running_containers, repo_idx, history>>

\* Digests of the untagged images of the repository of InitChunks.
BulkDigest(k) == 100 + k

\* A listing of n untagged images, followed when with_tagged by the image
\* tagged v1 and v4, pushed ten days before the run.
BulkDetails(n, with_tagged) ==
  [k \in 1..n |-> [imageDigest |-> BulkDigest(k), imagePushedAt |-> Now - 10]]
  \o (IF with_tagged THEN <<ImageDetail(2, Now - 10)>> ELSE <<>>)

\* discover_delete_images at its call of delete_images, in a region whose
\* one repository holds up to MaxDigests untagged images, with no image
\* running, IMAGES_TO_KEEP = 0 and the default patterns.
InitChunks ==
  /\ DRYRUN \in BOOLEAN
  /\ IMAGES_TO_KEEP = 0
  /\ IMAGES_KEEP_DURATION = <<"1", "w">>
  /\ IGNORE_TAGS_REGEX = RE_default
  /\ IGNORE_REPO_REGEX = RE_default
  /\ pc = "delete"
  /\ failure = "none"
  /\ repositories = <<Repos[1]>>
  /\ cluster_idx = Len(CLUSTERS) + 1
  /\ running_containers = <<>>
  /\ repo_idx = 1
  /\ \E n \in 0..MaxDigests, with_tagged \in BOOLEAN :
       \E c \in { Classified(Repos[1].repositoryUri,
                              BulkDetails(n, with_tagged), <<>>, <<>>,
                              convert_duration_to_timedelta(<<"1", "w">>).days,
                              0, RE_default) } :
          /\ (n = 0) => with_tagged
          /\ inventory = BulkDetails(n, with_tagged)
          /\ tagged_images = c.tagged_images
          /\ running_sha = c.running_sha
          /\ time_limit = c.time_limit
          /\ deletesha = c.deletesha
          /\ deletetag = c.deletetag
  /\ chunk_no = 0
  /\ issued = <<>>
  /\ report = <<>>
  /\ listed = {1}
  /\ planned = {1}
  /\ to_delete = {1}
  /\ completed = {}
  /\ delete_called = {}

Next ==
  \/ DescribeRepositories
  \/ DescribeRepositoriesFails
  \/ GetEksPodsImages
  \/ GetEksPodsImagesFails
  \/ SkipRepository
  \/ DescribeImagesFails
  \/ ProcessRepository
  \/ BatchDelete
  \/ BatchDeleteFails
  \/ PrintReport
  \/ EndTurn

Spec == Init /\ [][Next]_vars

\* delete_images alone, on long delete lists.
NextChunks ==
  \/ BatchDelete
  \/ BatchDeleteFails
  \/ PrintReport
  \/ EndTurn

SpecChunks == InitChunks /\ [][NextChunks]_vars

\* ------------------------------------------------------------- claims ---
\* The uri of the repository the loop took up last.
CurUri == repositories[repo_idx].repositoryUri

\* The image listings positions of the repository taken up last.
Listed == 1..Len(inventory)

HasTags(k) == "imageTags" \in DOMAIN inventory[k]

TagsOf(k) == { inventory[k].imageTags[j] : j \in 1..Len(inventory[k].imageTags) }

\* The image at position k of the listing has a tag that runs in a cluster.
Runs(k) ==
  \E t \in TagsOf(k) :
    \E j \in 1..Len(running_containers) :
      running_containers[j] = CurUri \o <<":">> \o t

InDeleteSha(k) ==
  \E j \in 1..Len(deletesha) : deletesha[j].imageDigest = inventory[k].imageDigest

InBatch(k) ==
  \E b \in 1..Len(issued) :
    \E j \in 1..Len(issued[b].imageIds) :
      issued[b].imageIds[j].imageDigest = inventory[k].imageDigest

\* The descriptor of tag t of the image at position k is in the delete-tag
\* list or in the printed report.
Described(k, t) ==
  LET d == [imageUrl |-> CurUri \o <<":">> \o t,
            pushedAt |-> inventory[k].imagePushedAt]
  IN \/ \E j \in 1..Len(deletetag) : deletetag[j] = d
     \/ \E j \in 1..Len(report) : report[j] = d

\* 0-based position of the tagged image at listing position k in the order
\* by push date, latest first, images of one date in listing order.
Rank(k) ==
  Cardinality({ j \in Listed :
                  /\ HasTags(j)
                  /\ \/ inventory[j].imagePushedAt > inventory[k].imagePushedAt
                     \/ /\ inventory[j].imagePushedAt = inventory[k].imagePushedAt
                        /\ j < k })

\* keepDuration in days.
KeepDays ==
  IF IMAGES_KEEP_DURATION = <<"1", "w">> THEN 7
  ELSE IF IMAGES_KEEP_DURATION = <<"1", "m">> THEN 30
  ELSE 0

\* pushedAt < now - keepDuration OR index >= keepCount
PastThresholds(k) ==
  \/ inventory[k].imagePushedAt < Now - KeepDays
  \/ Rank(k) >= IMAGES_TO_KEEP

\* The repository taken up last has been classified.
PlanReady == repo_idx \in planned /\ pc \in {"delete", "turn_end", "aborted"}

\* C1: a tagged image one of whose tags runs in a cluster (uri:tag is in the
\* usage collection) never has its digest in the delete list or in a batch,
\* issued or printed, and none of its tags is in the descriptor report.
C1_RunningProtected ==
  \A k \in Listed :
    (HasTags(k) /\ Runs(k)) =>
      /\ ~InDeleteSha(k)
      /\ ~InBatch(k)
      /\ \A t \in TagsOf(k) : ~Described(k, t)

\* A running image past the age threshold, with a tag that is neither
\* "latest" nor ignored, is kept while another image of the repository is
\* in a batch.
C1_Witness ==
  /\ PlanReady
  /\ issued # <<>>
  /\ \E k \in Listed :
       /\ HasTags(k) /\ Runs(k)
       /\ inventory[k].imagePushedAt < Now - KeepDays
       /\ \E t \in TagsOf(k) : t \in {S_v1, S_v2, S_v3, S_v4}
       /\ ~InBatch(k)

\* C2: an image that carries the tag "latest" or a tag matching
\* ignoreTagsRegex never has its digest in the delete list or a batch, and
\* no descriptor of it is reported, also when it carries other tags.
C2_ProtectedTagsKept ==
  \A k \in Listed :
    (/\ HasTags(k)
     /\ \E t \in TagsOf(k) : t = S_latest \/ re_search(IGNORE_TAGS_REGEX, t)) =>
      /\ ~InDeleteSha(k)
      /\ ~InBatch(k)
      /\ \A t \in TagsOf(k) : ~Described(k, t)

\* C3: once a repository is classified, the digest of every listed image
\* without tags is in the delete list, and the list is handed to
\* delete_images.
C3_UntaggedDeleted ==
  repo_idx \in planned =>
    \A k \in Listed :
      ~HasTags(k) => (InDeleteSha(k) /\ repo_idx \in to_delete)

\* An untagged image pushed within the keep duration, listed next to a
\* tagged image, with IMAGES_TO_KEEP >= 1, is in a batch.
C3_Witness ==
  /\ PlanReady
  /\ IMAGES_TO_KEEP >= 1
  /\ \E k, j \in Listed :
       /\ ~HasTags(k) /\ HasTags(j)
       /\ inventory[k].imagePushedAt >= Now - KeepDays
       /\ InBatch(k)

\* An image that is not running and has no tag containing "latest" or
\* matching the pattern.
Unprotected(k) ==
  /\ HasTags(k)
  /\ ~Runs(k)
  /\ \A t \in TagsOf(k) :
       ~Contains(S_latest, t) /\ ~re_search(IGNORE_TAGS_REGEX, t)

\* C4: a tagged image that is not running and has no tag containing
\* "latest" or matching the pattern is in the delete list exactly if
\* pushedAt < now - keepDuration or its 0-based index in the
\* pushed-descending order is >= keepCount.
C4_ThresholdsOrd ==
  PlanReady =>
    \A k \in Listed : Unprotected(k) => (InDeleteSha(k) <=> PastThresholds(k))

\* Of two images pushed within the keep duration, the first is kept and the
\* second, at index 1 >= keepCount, is deleted.
C4_Witness ==
  /\ PlanReady
  /\ \E k, j \in Listed :
       /\ Unprotected(k) /\ Unprotected(j)
       /\ inventory[k].imagePushedAt >= Now - KeepDays
       /\ inventory[j].imagePushedAt >= Now - KeepDays
       /\ Rank(k) < IMAGES_TO_KEEP /\ ~InDeleteSha(k)
       /\ Rank(j) >= IMAGES_TO_KEEP /\ InDeleteSha(j)

\* The failures of the calls a dry run makes too.
InputFailures == {"repositories", "cluster", "list", "config"}

\* C5: with DRYRUN no batch_delete_image call is issued, and a pass whose
\* listings, cluster queries and configuration are good ends as the dry run
\* does: every repository that is not ignored classified, and batches and
\* report out for every repository handed to delete_images.
C5_DryRunSameReport ==
  /\ DRYRUN => (delete_called = {} /\ \A b \in 1..Len(issued) : ~issued[b].real)
  /\ (pc \in {"done", "aborted"} /\ failure \notin InputFailures) =>
       /\ pc = "done"
       /\ to_delete = completed
       /\ \A r \in 1..Len(repositories) :
            ~re_search(IGNORE_REPO_REGEX, repositories[r].repositoryUri)
              => r \in planned

\* C6: a repository whose uri matches ignoreRepoRegex is never listed,
\* classified, handed to delete_images or named in a batch call, and the
\* loop takes up, and lists, every other repository it passes.
C6_IgnoredRepoUntouched ==
  \A r \in 1..Len(repositories) :
    IF re_search(IGNORE_REPO_REGEX, repositories[r].repositoryUri)
      THEN /\ r \notin listed \cup planned \cup to_delete \cup completed
                            \cup delete_called
           /\ repo_idx = r => (inventory = <<>> /\ deletesha = <<>> /\ issued = <<>>)
      ELSE r <= repo_idx => r \in listed

\* The first repository is skipped, the second is deleted from.
C6_Witness ==
  /\ pc = "done"
  /\ re_search(IGNORE_REPO_REGEX, repositories[1].repositoryUri)
  /\ 1 \notin listed
  /\ 2 \in completed

\* Number of batches of a list of n digests.
BatchCount(n) == (n + 99) \div 100

\* C7: the batches of a delete list of n >= 1 digests are numbered 1, 2, ...
\* in list order, each but the last holds 100 digests and the last the
\* remaining 1 to 100, batch k holds the digests 100(k-1)+1.. of the list,
\* the digests of the list are distinct, and delete_images returns after
\* ceil(n/100) batches.
C7_ChunksPartition ==
  pc \in {"delete", "turn_end", "aborted"} =>
    LET n == Len(deletesha) IN
    /\ Cardinality({ deletesha[j] : j \in 1..n }) = n
    /\ Len(issued) <= BatchCount(n)
    /\ repo_idx \in completed => Len(issued) = BatchCount(n)
    /\ \A k \in 1..Len(issued) :
         /\ issued[k].i = k
         /\ Len(issued[k].imageIds) =
              (IF k < BatchCount(n) THEN 100 ELSE n - 100 * (BatchCount(n) - 1))
         /\ Len(issued[k].imageIds) >= 1
         /\ \A j \in 1..Len(issued[k].imageIds) :
              issued[k].imageIds[j] = deletesha[100 * (k - 1) + j]

\* delete_images has returned for 250 digests, one of them appended for two
\* tags: batches of 100, 100 and 50.
C7_Witness ==
  /\ pc = "turn_end"
  /\ repo_idx \in completed
  /\ Len(deletesha) = 250
  /\ tagged_images # <<>>
  /\ Len(issued) = 3
  /\ Len(issued[1].imageIds) = 100
  /\ Len(issued[2].imageIds) = 100
  /\ Len(issued[3].imageIds) = 50

\* C8: when the listing or a batch call of a repository fails, every later
\* repository that is not ignored is still listed and classified.
C8_FailureConfined ==
  (pc \in {"done", "aborted"} /\ failure \in {"list", "delete"}) =>
    \A r \in 1..Len(repositories) :
      ~re_search(IGNORE_REPO_REGEX, repositories[r].repositoryUri)
        => r \in listed

\* The pass is past the loop over the clusters.
Classifying ==
  \/ pc \in {"repos", "delete", "turn_end", "done"}
  \/ listed # {} \/ planned # {} \/ to_delete # {} \/ delete_called # {}
  \/ issued # <<>>

\* C9: listing, classification and batches happen only after every cluster
\* was queried; the usage collection does not change after the loop over the
\* clusters; after a failed cluster query there is no listing and no batch.
C9_UsageFirst ==
  /\ [](Classifying => (cluster_idx = Len(CLUSTERS) + 1 /\ failure # "cluster"))
  /\ [](failure = "cluster" =>
          (pc = "aborted" /\ listed = {} /\ delete_called = {} /\ issued = <<>>))
  /\ [][pc # "clusters" => running_containers' = running_containers]_vars

\* A batch_delete_image call is out after both clusters returned images.
C9_Witness ==
  /\ delete_called # {}
  /\ cluster_idx = Len(CLUSTERS) + 1
  /\ \E j \in 1..Len(running_containers) :
       running_containers[j] = <<"a", ":">> \o S_rc1
  /\ \E j \in 1..Len(running_containers) :
       running_containers[j] = <<"a", ":">> \o S_latest

\* A tagged image that is a deletion candidate and is not running.
IdleCandidate(k) == HasTags(k) /\ ~Runs(k) /\ PastThresholds(k)

\* C10 as stated: a tag of a candidate image that is not running is exempt
\* exactly if it is "latest" or matches the pattern; every other tag is
\* reported, and the digest is in the delete list when there is one.
C10_ExactLatest ==
  PlanReady =>
    \A k \in Listed :
      IdleCandidate(k) =>
        /\ \A t \in TagsOf(k) :
             Described(k, t) <=> ~(t = S_latest \/ re_search(IGNORE_TAGS_REGEX, t))
        /\ InDeleteSha(k) <=>
             \E t \in TagsOf(k) :
               ~(t = S_latest \/ re_search(IGNORE_TAGS_REGEX, t))

\* C10 amended: a tag of a candidate image that is not running is exempt
\* exactly if it contains "latest" or matches the pattern; every other tag
\* is reported, and the digest is in the delete list when there is one.
C10_ContainsLatest ==
  PlanReady =>
    \A k \in Listed :
      IdleCandidate(k) =>
        /\ \A t \in TagsOf(k) :
             Described(k, t) <=>
               ~(Contains(S_latest, t) \/ re_search(IGNORE_TAGS_REGEX, t))
        /\ InDeleteSha(k) <=>
             \E t \in TagsOf(k) :
               ~(Contains(S_latest, t) \/ re_search(IGNORE_TAGS_REGEX, t))

\* The report of a repository is printed; its candidate image tagged
\* "latest-dev" is kept and not reported.
C10_Witness ==
  /\ pc = "turn_end"
  /\ report # <<>>
  /\ \E k \in Listed :
       /\ IdleCandidate(k)
       /\ S_latest_dev \in TagsOf(k)
       /\ ~re_search(IGNORE_TAGS_REGEX, S_latest_dev)
       /\ ~InDeleteSha(k)
       /\ ~Described(k, S_latest_dev)

====
